---- MODULE Spec2Model ----
(***************************************************************************)
(* Model of arch_search_tf.py: the Gumbel-softmax supernet.                *)
(*   MixedModuleTf               the mixture layer (construct, build, call)*)
(*   NasModel                    compile (parameter partition), train_step *)
(*   SupernetTemperatureCallback the temperature schedule                  *)
(* Real numbers are exact rationals <<numerator, denominator>> with a      *)
(* positive denominator and no common factor.                              *)
(***************************************************************************)
EXTENDS Integers, Sequences, FiniteSets, TLC

(* ------------------------------ bounds --------------------------------- *)
MaxLayers == 2      \* mixture layers in the wrapped graph
MaxOps == 3         \* candidate operations offered to one constructor
MaxBatch == 2       \* examples in one batch
MaxSteps == 2       \* train_step calls in one run
MaxEpoch == 20      \* epochs handed to on_epoch_begin

(* ----------------------------- rationals ------------------------------- *)
Abs(n) == IF n < 0 THEN -n ELSE n

RECURSIVE Gcd(_, _)
Gcd(a, b) == IF b = 0 THEN a ELSE Gcd(b, a % b)

\* The rational n/d (d # 0) in lowest terms with a positive denominator.
Rat(n, d) ==
    LET g == Gcd(Abs(n), Abs(d))
        s == IF d < 0 THEN -1 ELSE 1
    IN  << (s * n) \div g, (s * d) \div g >>

RatInt(n) == << n, 1 >>
RatAdd(p, q) == Rat(p[1] * q[2] + q[1] * p[2], p[2] * q[2])
RatSub(p, q) == Rat(p[1] * q[2] - q[1] * p[2], p[2] * q[2])
RatMul(p, q) == Rat(p[1] * q[1], p[2] * q[2])
\* p / q; the caller raises ZeroDivisionError when q is zero.
RatDiv(p, q) == Rat(p[1] * q[2], p[2] * q[1])
RatLeq(p, q) == p[1] * q[2] <= q[1] * p[2]
RatLess(p, q) == p[1] * q[2] < q[1] * p[2]
\* Python's max(a, b): b only when b > a.
RatMax(p, q) == IF RatLess(p, q) THEN q ELSE p
IntMax(a, b) == IF b > a THEN b ELSE a

(* ------------------------- sequences helpers --------------------------- *)
Range(s) == { s[i] : i \in DOMAIN s }

RECURSIVE SumSeq(_)
SumSeq(s) == IF s = << >> THEN 0 ELSE Head(s) + SumSeq(Tail(s))

NoDuplicates(s) == \A i, j \in DOMAIN s : i # j => s[i] # s[j]

(* --------------------------- MixedModuleTf ----------------------------- *)
\* Candidate operations (opaque layers) and the names a dict may give them.
Ops == { "conv3", "conv5", "skip" }
DictNames == { "a", "b", "0" }
Multipliers == { 0, 2 }

\* Python's str(i) for the list positions.
str(i) == CASE i = 0 -> "0" [] i = 1 -> "1" [] i = 2 -> "2" [] i = 3 -> "3"
            [] i = 4 -> "4" [] OTHER -> "9"

\* A dict is the sequence of its <<key, value>> items in insertion order;
\* its keys are distinct.  A list is the sequence of its elements.
DictKeys(d) == [ i \in DOMAIN d |-> d[i][1] ]
DictGet(d, k) == LET i == CHOOSE i \in DOMAIN d : d[i][1] = k IN d[i][2]

ListInputs == UNION { [ 1..n -> Ops ] : n \in 0..MaxOps }
DictInputs ==
    { d \in UNION { [ 1..n -> DictNames \X Ops ] : n \in 0..MaxOps } :
        NoDuplicates(DictKeys(d)) }
OpsInputs == { [ kind |-> "list", items |-> l ] : l \in ListInputs }
             \cup { [ kind |-> "dict", items |-> d ] : d \in DictInputs }

\* `ops = {str(i): op for i, op in enumerate(ops)}` for a list argument.
EnumerateOps(inp) ==
    IF inp.kind = "list"
    THEN [ i \in DOMAIN inp.items |-> << str(i - 1), inp.items[i] >> ]
    ELSE inp.items

\* add_module: setattr(self, 'sublayer_' + name, module).
AttrName(name) == "sublayer_" \o name
add_module(attrs, name, module) ==
    [ a \in DOMAIN attrs \cup { AttrName(name) } |->
        IF a = AttrName(name) THEN module ELSE attrs[a] ]

RECURSIVE AddModules(_, _)
AddModules(attrs, items) ==
    IF items = << >> THEN attrs
    ELSE AddModules(add_module(attrs, Head(items)[1], Head(items)[2]), Tail(items))

\* get_module: getattr(self, 'sublayer_' + name).
get_module(layer, name) == layer.attrs[AttrName(name)]

\* `assert len(ops) > 1`
OpsAcceptedOne(ops) == Len(ops) > 0
OpsAccepted(ops) == Len(ops) > 1

EmptyAttrs == [ a \in {} |-> "conv3" ]

\* The layer object MixedModuleTf.__init__ leaves behind.
NewLayer(inp, mult, connected) ==
    LET ops == EnumerateOps(inp)
    IN  [ op_names |-> DictKeys(ops),
          attrs |-> AddModules(EmptyAttrs, ops),
          cost_loss_multiplier |-> mult,
          built |-> FALSE,
          trainable |-> TRUE,
          connected |-> connected ]

(* ------------------------------- state --------------------------------- *)
VARIABLES
    layers,          \* the MixedModuleTf objects of the graph, in submodules order
    lastCtor,        \* the last MixedModuleTf(...) call: its argument and outcome
    store,           \* tf.Variable id -> [trainable, value]
    arch_params,     \* NasModel.arch_params      (variable ids)
    non_arch_params, \* NasModel.non_arch_params  (variable ids)
    concat_params,   \* NasModel.concat_params    (variable ids)
    compiled,        \* outcome of the last NasModel.compile
    pc,              \* position inside train_step
    fwdIdx,          \* next layer of the forward pass
    batch,           \* batch size of the running step
    losses,          \* losses registered by add_loss in the running forward pass
    gradients,       \* result of tape.gradient
    applied,         \* (optimizer, variable, gradient) applications of the step
    step,            \* what the running (or last) train_step has done so far
    steps,           \* train_step calls made
    cb,              \* the SupernetTemperatureCallback, once constructed
    sched            \* the last two on_epoch_begin calls of cb

vars == << layers, lastCtor, store, arch_params, non_arch_params, concat_params,
           compiled, pc, fwdIdx, batch, losses, gradients, applied, step, steps,
           cb, sched >>

modelVars == << arch_params, non_arch_params, concat_params, compiled >>
stepVars == << pc, fwdIdx, batch, losses, gradients, applied, step, steps >>
cbVars == << cb, sched >>

NoInput == [ kind |-> "none", items |-> << >> ]

\* Variable ids: <<layer index, attribute>>; index 0 is the ordinary part of
\* the wrapped graph (a dense kernel and bias, and a moving mean that is not
\* trainable).
Temperature(l) == << l, "gumbel_temperature" >>
OpsCost(l) == << l, "ops_cost_static" >>
ArchParams(l) == << l, "gumble_arch_params" >>
Kernel == << 0, "kernel" >>
Bias == << 0, "bias" >>
MovingMean == << 0, "moving_mean" >>

\* self.add_weight(shape, initializer=constant(c), trainable=t)
add_weight(n, c, t) == [ trainable |-> t, value |-> [ i \in 1..n |-> c ] ]

OrdinaryStore ==
    [ v \in { Kernel, Bias, MovingMean } |->
        IF v = MovingMean THEN add_weight(1, 0, FALSE) ELSE add_weight(1, 0, TRUE) ]

NoStep == [ grads |-> 0, non_arch |-> 0, arch |-> 0, metrics |-> 0, outcome |-> "none" ]
NoCall == [ epoch |-> -1, outcome |-> "none", temperature |-> << 0, 1 >> ]
NoSched == << NoCall, NoCall >>
NoCallback ==
    [ constructed |-> FALSE, result |-> "none", temperature_variables |-> << >>,
      start_epoch |-> 0, final_epoch |-> 0,
      start_temp |-> << 0, 1 >>, end_temp |-> << 0, 1 >> ]

Init ==
    /\ layers = << >>
    /\ lastCtor = [ inp |-> NoInput, ok |-> FALSE ]
    /\ store = OrdinaryStore
    /\ arch_params = << >>
    /\ non_arch_params = << >>
    /\ concat_params = << >>
    /\ compiled = "no"
    /\ pc = "idle"
    /\ fwdIdx = 0
    /\ batch = 0
    /\ losses = << >>
    /\ gradients = << >>
    /\ applied = {}
    /\ step = NoStep
    /\ steps = 0
    /\ cb = NoCallback
    /\ sched = NoSched

(* ----------------- MixedModuleTf.__init__ and build -------------------- *)
\* MixedModuleTf(ops, cost_loss_multiplier); `connected` says whether the
\* wrapped graph routes its input through the new layer.
MixedModuleInit(inp, mult, connected) ==
    /\ pc = "idle"
    /\ compiled # "ok"
    /\ Len(layers) < MaxLayers
    /\ IF OpsAccepted(EnumerateOps(inp))
       THEN /\ layers' = Append(layers, NewLayer(inp, mult, connected))
            /\ lastCtor' = [ inp |-> inp, ok |-> TRUE ]
       ELSE /\ layers' = layers
            /\ lastCtor' = [ inp |-> inp, ok |-> FALSE ]
    /\ UNCHANGED << store, modelVars, stepVars, cbVars >>

\* The external profiler: a static cost per candidate operation.
get_flops_inputs(op) == CASE op = "conv3" -> 3 [] op = "conv5" -> 5 [] OTHER -> 0

\* The three weights build allocates, the cost vector already filled by the
\* assignments of the final loop.
BuiltWeightsCostTrainable(l, layer) ==
    LET n == Len(layer.op_names)
        cost == add_weight(n, 0, TRUE)
    IN  (Temperature(l) :> [ trainable |-> FALSE, value |-> RatInt(1) ])
        @@ (OpsCost(l) :>
              [ cost EXCEPT !.value =
                  [ i \in 1..n |-> get_flops_inputs(get_module(layer, layer.op_names[i])) ] ])
        @@ (ArchParams(l) :> add_weight(n, 1, TRUE))

BuiltWeights(l, layer) ==
    LET n == Len(layer.op_names)
        cost == add_weight(n, 0, FALSE)
    IN  (Temperature(l) :> [ trainable |-> FALSE, value |-> RatInt(1) ])
        @@ (OpsCost(l) :>
              [ cost EXCEPT !.value =
                  [ i \in 1..n |-> get_flops_inputs(get_module(layer, layer.op_names[i])) ] ])
        @@ (ArchParams(l) :> add_weight(n, 1, TRUE))

build(l) ==
    /\ pc = "idle"
    /\ compiled # "ok"
    /\ l \in DOMAIN layers
    /\ ~layers[l].built
    /\ store' = BuiltWeights(l, layers[l]) @@ store
    /\ layers' = [ layers EXCEPT ![l].built = TRUE ]
    /\ UNCHANGED << lastCtor, modelVars, stepVars, cbVars >>

\* keras.layers.Layer.trainable = flag (freezing or unfreezing a layer).
SetTrainable(l, flag) ==
    /\ pc = "idle"
    /\ compiled # "ok"
    /\ l \in DOMAIN layers
    /\ layers[l].trainable # flag
    /\ layers' = [ layers EXCEPT ![l].trainable = flag ]
    /\ UNCHANGED << lastCtor, store, modelVars, stepVars, cbVars >>

(* -------------------------- NasModel.compile --------------------------- *)
\* model.variables in tracking order.
RECURSIVE LayerVars(_, _)
LayerVars(ls, l) ==
    IF l > Len(ls) THEN << >>
    ELSE (IF ls[l].built THEN << Temperature(l), OpsCost(l), ArchParams(l) >> ELSE << >>)
         \o LayerVars(ls, l + 1)

Variables(ls) == << Kernel >> \o LayerVars(ls, 1) \o << MovingMean, Bias >>

IsTrainable(ls, st, v) ==
    /\ st[v].trainable
    /\ v[1] = 0 \/ ls[v[1]].trainable

\* self.trainable_variables
trainable_variables(ls, st) ==
    SelectSeq(Variables(ls), LAMBDA v : IsTrainable(ls, st, v))

\* The first loop of compile: the preference vectors of the layers up to
\* (not including) the first layer that is not built.
RECURSIVE CollectArch(_, _)
CollectArch(ls, l) ==
    IF l > Len(ls) \/ ~ls[l].built THEN << >>
    ELSE << ArchParams(l) >> \o CollectArch(ls, l + 1)

AllBuilt(ls) == \A l \in DOMAIN ls : ls[l].built

\* The second loop: every trainable variable that is none of the arch params.
CollectNonArch(tv, arch) == SelectSeq(tv, LAMBDA v : v \notin Range(arch))

\* `assert len(self.trainable_variables) == len(arch_params) + len(non_arch_params)`
PartitionAssertOff(tv, arch, non_arch) == TRUE
PartitionAssert(tv, arch, non_arch) == Len(tv) = Len(arch) + Len(non_arch)

\* self.concat_params = self.non_arch_params + self.arch_params
ConcatParamsSwapped(non_arch, arch) == arch \o non_arch
ConcatParams(non_arch, arch) == non_arch \o arch

compile ==
    /\ pc = "idle"
    /\ LET arch == CollectArch(layers, 1)
           tv == trainable_variables(layers, store)
           non_arch == CollectNonArch(tv, arch)
       IN  IF ~AllBuilt(layers)
           THEN \* `assert mod.built` fails inside the first loop
                /\ arch_params' = arch
                /\ compiled' = "AssertionError"
                /\ UNCHANGED << non_arch_params, concat_params >>
           ELSE /\ arch_params' = arch
                /\ non_arch_params' = non_arch
                /\ IF PartitionAssert(tv, arch, non_arch)
                   THEN /\ concat_params' = ConcatParams(non_arch, arch)
                        /\ compiled' = "ok"
                   ELSE /\ concat_params' = concat_params
                        /\ compiled' = "AssertionError"
    /\ UNCHANGED << layers, lastCtor, store, stepVars, cbVars >>

(* ------------------------- NasModel.train_step ------------------------- *)
\* Relaxed one-hot samples over n operations: positive weights that sum to 1,
\* here 2/(n+1) for the operation the sample leans to and 1/(n+1) for the rest,
\* kept as the numerators.
WeightVecs(n) ==
    { [ i \in 1..n |-> IF i = k THEN 2 ELSE 1 ] : k \in 1..n }

\* cost = ops_cost_static * gumbel_weights;
\* reduce_mean(reduce_sum(cost * cost_loss_multiplier, axis=1))
CostLossUnscaled(cost, w, mult) ==
    LET perExample == [ b \in DOMAIN w |->
                          SumSeq([ i \in DOMAIN cost |-> cost[i] * w[b][i] ]) ]
    IN  Rat(SumSeq(perExample), Len(w) * (Len(cost) + 1))

CostLoss(cost, w, mult) ==
    LET perExample == [ b \in DOMAIN w |->
                          SumSeq([ i \in DOMAIN cost |-> cost[i] * w[b][i] * mult ]) ]
    IN  Rat(SumSeq(perExample), Len(w) * (Len(cost) + 1))

\* `x, y = data` and the entry of the tape block; Keras clears the losses of
\* the previous forward pass when the model is called.
TrainStepBegin(B) ==
    /\ pc = "idle"
    /\ compiled = "ok"
    /\ steps < MaxSteps
    /\ pc' = "forward"
    /\ fwdIdx' = 1
    /\ batch' = B
    /\ losses' = << >>
    /\ gradients' = << >>
    /\ applied' = {}
    /\ step' = NoStep
    /\ steps' = steps + 1
    /\ UNCHANGED << layers, lastCtor, store, modelVars, cbVars >>

\* MixedModuleTf.call of layer l inside the forward pass, with the sample w.
call(l, w) ==
    /\ pc = "forward"
    /\ l = fwdIdx
    /\ l \in DOMAIN layers
    /\ layers[l].connected
    /\ losses' = Append(losses,
                    [ layer |-> l,
                      value |-> CostLoss(store[OpsCost(l)].value, w,
                                         layers[l].cost_loss_multiplier) ])
    /\ fwdIdx' = fwdIdx + 1
    /\ UNCHANGED << layers, lastCtor, store, modelVars, cbVars,
                    pc, batch, gradients, applied, step, steps >>

\* A layer the wrapped graph does not route its input through is not called.
ForwardSkip(l) ==
    /\ pc = "forward"
    /\ l = fwdIdx
    /\ l \in DOMAIN layers
    /\ ~layers[l].connected
    /\ fwdIdx' = fwdIdx + 1
    /\ UNCHANGED << layers, lastCtor, store, modelVars, cbVars,
                    pc, batch, losses, gradients, applied, step, steps >>

\* The forward pass or the loss raises (for instance on a shape mismatch).
ForwardRaise ==
    /\ pc = "forward"
    /\ pc' = "idle"
    /\ step' = [ step EXCEPT !.outcome = "raised" ]
    /\ UNCHANGED << layers, lastCtor, store, modelVars, cbVars,
                    fwdIdx, batch, losses, gradients, applied, steps >>

\* d loss / d v: None for a variable the loss does not depend on.
Connected(ls, v) == v[1] = 0 \/ ls[v[1]].connected
GradientOf(ls, v) == [ wrt |-> v, isNone |-> ~Connected(ls, v), g |-> 1 ]

\* tape.gradient(loss, self.concat_params)
TapeGradient(ls, params) == [ i \in DOMAIN params |-> GradientOf(ls, params[i]) ]

Gradient ==
    /\ pc = "forward"
    /\ fwdIdx > Len(layers)
    /\ gradients' = TapeGradient(layers, concat_params)
    /\ step' = [ step EXCEPT !.grads = @ + 1 ]
    /\ pc' = "apply_non_arch"
    /\ UNCHANGED << layers, lastCtor, store, modelVars, cbVars,
                    fwdIdx, batch, losses, applied, steps >>

Min(a, b) == IF a < b THEN a ELSE b
\* zip(a, b)
Zip(a, b) == [ i \in 1..Min(Len(a), Len(b)) |-> << a[i], b[i] >> ]
\* gradients[0:n] and gradients[n:]
SliceTo(s, n) == SubSeq(s, 1, Min(n, Len(s)))
SliceFrom(s, n) == SubSeq(s, n + 1, Len(s))

non_arch_gradients == SliceTo(gradients, Len(non_arch_params))
arch_gradients == SliceFrom(gradients, Len(non_arch_params))

\* Optimizer.apply_gradients: raises ValueError("No gradients provided for
\* any variable") when pairs are given and every gradient is None; otherwise
\* it updates the variables whose gradient is not None.
NoGradients(pairs) == pairs # << >> /\ \A i \in DOMAIN pairs : pairs[i][1].isNone
Updated(pairs) == { pairs[i][2] : i \in { j \in DOMAIN pairs : ~pairs[j][1].isNone } }
GradFor(pairs, v) ==
    LET i == CHOOSE i \in DOMAIN pairs : pairs[i][2] = v /\ ~pairs[i][1].isNone
    IN  pairs[i][1]
ApplyGradients(st, pairs) ==
    [ v \in DOMAIN st |->
        IF v \in Updated(pairs)
        THEN [ st[v] EXCEPT !.value = [ i \in DOMAIN @ |-> @[i] - GradFor(pairs, v).g ] ]
        ELSE st[v] ]
Applications(opt, pairs) ==
    { [ opt |-> opt, var |-> pairs[i][2], grad |-> pairs[i][1] ] :
        i \in { j \in DOMAIN pairs : ~pairs[j][1].isNone } }

\* self.optimizer.apply_gradients(zip(non_arch_gradients, non_arch_params))
ApplyNonArchSkipped ==
    /\ pc = "apply_non_arch"
    /\ pc' = "apply_arch"
    /\ UNCHANGED << layers, lastCtor, store, modelVars, cbVars,
                    fwdIdx, batch, losses, gradients, applied, step, steps >>

ApplyNonArch ==
    /\ pc = "apply_non_arch"
    /\ LET pairs == Zip(non_arch_gradients, non_arch_params)
       IN  IF NoGradients(pairs)
           THEN /\ pc' = "idle"
                /\ step' = [ step EXCEPT !.outcome = "raised" ]
                /\ UNCHANGED << store, applied >>
           ELSE /\ store' = ApplyGradients(store, pairs)
                /\ applied' = applied \cup Applications("optimizer", pairs)
                /\ step' = [ step EXCEPT !.non_arch = @ + 1 ]
                /\ pc' = "apply_arch"
    /\ UNCHANGED << layers, lastCtor, modelVars, cbVars,
                    fwdIdx, batch, losses, gradients, steps >>

\* self.arch_optimizer.apply_gradients(zip(arch_gradients, arch_params))
ApplyArchSkipped ==
    /\ pc = "apply_arch"
    /\ pc' = "metrics"
    /\ UNCHANGED << layers, lastCtor, store, modelVars, cbVars,
                    fwdIdx, batch, losses, gradients, applied, step, steps >>

ApplyArch ==
    /\ pc = "apply_arch"
    /\ LET pairs == Zip(arch_gradients, arch_params)
       IN  IF NoGradients(pairs)
           THEN /\ pc' = "idle"
                /\ step' = [ step EXCEPT !.outcome = "raised" ]
                /\ UNCHANGED << store, applied >>
           ELSE /\ store' = ApplyGradients(store, pairs)
                /\ applied' = applied \cup Applications("arch_optimizer", pairs)
                /\ step' = [ step EXCEPT !.arch = @ + 1 ]
                /\ pc' = "metrics"
    /\ UNCHANGED << layers, lastCtor, modelVars, cbVars,
                    fwdIdx, batch, losses, gradients, steps >>

\* self.compiled_metrics.update_state(y, y_pred) and the return.
UpdateMetrics ==
    /\ pc = "metrics"
    /\ step' = [ step EXCEPT !.metrics = @ + 1, !.outcome = "returned" ]
    /\ pc' = "idle"
    /\ UNCHANGED << layers, lastCtor, store, modelVars, cbVars,
                    fwdIdx, batch, losses, gradients, applied, steps >>

(* -------------------- SupernetTemperatureCallback ---------------------- *)
\* The first loop of __init__: the temperature slot of every mixture layer.
TemperatureVariables(ls) == [ l \in DOMAIN ls |-> Temperature(l) ]

\* `assert self.start_temp > self.end_temp`
ScheduleAcceptedAlways(start_temp, end_temp) == TRUE
ScheduleAccepted(start_temp, end_temp) == RatLess(end_temp, start_temp)

SupernetTemperatureCallbackInit(start_epoch, final_epoch, start_temp, end_temp) ==
    /\ pc = "idle"
    /\ ~cb.constructed
    /\ IF AllBuilt(layers) /\ ScheduleAccepted(start_temp, end_temp)
       THEN cb' = [ constructed |-> TRUE, result |-> "ok",
                    temperature_variables |-> TemperatureVariables(layers),
                    start_epoch |-> start_epoch, final_epoch |-> final_epoch,
                    start_temp |-> start_temp, end_temp |-> end_temp ]
       ELSE cb' = [ NoCallback EXCEPT !.result = "AssertionError" ]
    /\ sched' = NoSched
    /\ UNCHANGED << layers, lastCtor, store, modelVars, stepVars >>

\* delta_temp and temperature of on_epoch_begin (final_epoch # start_epoch).
ScheduleTemperatureNoFloor(c, epoch) ==
    LET delta_temp == RatDiv(RatSub(c.end_temp, c.start_temp),
                             RatInt(c.final_epoch - c.start_epoch))
    IN  RatMax(RatAdd(c.start_temp,
                      RatMul(delta_temp, RatInt(epoch - c.start_epoch))),
               c.end_temp)

ScheduleTemperatureRising(c, epoch) ==
    LET delta_temp == RatDiv(RatSub(c.start_temp, c.end_temp),
                             RatInt(c.final_epoch - c.start_epoch))
    IN  RatMax(RatAdd(c.start_temp,
                      RatMul(delta_temp, RatInt(IntMax(epoch - c.start_epoch, 0)))),
               c.end_temp)

ScheduleTemperature(c, epoch) ==
    LET delta_temp == RatDiv(RatSub(c.end_temp, c.start_temp),
                             RatInt(c.final_epoch - c.start_epoch))
    IN  RatMax(RatAdd(c.start_temp,
                      RatMul(delta_temp, RatInt(IntMax(epoch - c.start_epoch, 0)))),
               c.end_temp)

\* temp_var.assign(temperature) for every cached temperature variable.
AssignAll(st, tvars, temperature) ==
    [ v \in DOMAIN st |->
        IF v \in Range(tvars) THEN [ st[v] EXCEPT !.value = temperature ] ELSE st[v] ]

on_epoch_begin(epoch) ==
    /\ pc = "idle"
    /\ cb.constructed
    /\ IF cb.final_epoch = cb.start_epoch
       THEN \* ZeroDivisionError in the computation of delta_temp
            /\ sched' = << sched[2], [ epoch |-> epoch, outcome |-> "ZeroDivisionError",
                                        temperature |-> << 0, 1 >> ] >>
            /\ store' = store
       ELSE LET temperature == ScheduleTemperature(cb, epoch)
            IN  /\ store' = AssignAll(store, cb.temperature_variables, temperature)
                /\ sched' = << sched[2], [ epoch |-> epoch, outcome |-> "set",
                                            temperature |-> temperature ] >>
    /\ UNCHANGED << layers, lastCtor, modelVars, stepVars, cb >>

(* --------------------------- specifications ---------------------------- *)
ListOf2 == [ kind |-> "list", items |-> << "conv3", "conv5" >> ]
DictOf3 == [ kind |-> "dict",
             items |-> << << "b", "skip" >>, << "a", "conv5" >>, << "0", "conv3" >> >> ]
\* The layers of the training runs: <<ops, cost_loss_multiplier, connected>>.
MainLayers == { << DictOf3, 0, TRUE >>, << ListOf2, 2, TRUE >>, << ListOf2, 2, FALSE >> }

Tenth == Rat(1, 10)
MainSchedules == { << 0, 2, RatInt(5), Tenth >> }
MainEpochs == { 1 }

LayerSteps ==
    \/ \E k \in MainLayers : MixedModuleInit(k[1], k[2], k[3])
    \/ \E l \in 1..MaxLayers : build(l)
    \/ \E l \in 1..MaxLayers, flag \in BOOLEAN : SetTrainable(l, flag)

TrainSteps ==
    \/ \E B \in 1..MaxBatch : TrainStepBegin(B)
    \/ \E l \in DOMAIN layers :
          \E w \in [ 1..batch -> WeightVecs(Len(layers[l].op_names)) ] : call(l, w)
    \/ \E l \in DOMAIN layers : ForwardSkip(l)
    \/ ForwardRaise
    \/ Gradient
    \/ ApplyNonArch
    \/ ApplyArch
    \/ UpdateMetrics

\* The callback is made for the compiled model and driven by its training loop.
CallbackSteps ==
    /\ compiled = "ok"
    /\ \/ \E p \in MainSchedules :
             SupernetTemperatureCallbackInit(p[1], p[2], p[3], p[4])
       \/ \E epoch \in MainEpochs : on_epoch_begin(epoch)

Next ==
    \/ LayerSteps
    \/ compile
    \/ TrainSteps
    \/ CallbackSteps

Spec == Init /\ [][Next]_vars

\* Constructor runs: the first MixedModuleTf of a graph, over every list and
\* dict of at most MaxOps operations, and its build.
CtorNext ==
    \/ /\ Len(layers) = 0
       /\ \E inp \in OpsInputs, mult \in Multipliers, connected \in BOOLEAN :
             MixedModuleInit(inp, mult, connected)
    \/ build(1)

SpecCtor == Init /\ [][CtorNext]_vars

\* Schedule runs: a graph whose layers exist already, one callback over a
\* range of schedules, and on_epoch_begin for the epochs 0..MaxEpoch.
BuiltLayer(k) == [ NewLayer(k[1], k[2], k[3]) EXCEPT !.built = TRUE ]
SchedGraphs ==
    { << BuiltLayer(<< ListOf2, 0, TRUE >>), BuiltLayer(<< DictOf3, 2, TRUE >>) >>,
      << BuiltLayer(<< ListOf2, 0, TRUE >>), NewLayer(DictOf3, 2, TRUE) >> }

RECURSIVE GraphStore(_, _)
GraphStore(ls, l) ==
    IF l > Len(ls) THEN OrdinaryStore
    ELSE IF ls[l].built THEN BuiltWeights(l, ls[l]) @@ GraphStore(ls, l + 1)
         ELSE GraphStore(ls, l + 1)

InitSched ==
    /\ layers \in SchedGraphs
    /\ lastCtor = [ inp |-> DictOf3, ok |-> TRUE ]
    /\ store = GraphStore(layers, 1)
    /\ arch_params = << >>
    /\ non_arch_params = << >>
    /\ concat_params = << >>
    /\ compiled = "no"
    /\ pc = "idle"
    /\ fwdIdx = 0
    /\ batch = 0
    /\ losses = << >>
    /\ gradients = << >>
    /\ applied = {}
    /\ step = NoStep
    /\ steps = 0
    /\ cb = NoCallback
    /\ sched = NoSched

StartEpochs == { 0, 5, 10 }
FinalEpochs == { 5, 15 }
Temps == { Tenth, RatInt(1), RatInt(5) }

SchedNext ==
    \/ \E se \in StartEpochs, fe \in FinalEpochs, st \in Temps, et \in Temps :
          SupernetTemperatureCallbackInit(se, fe, st, et)
    \/ \E epoch \in 0..MaxEpoch : on_epoch_begin(epoch)

SpecSched == InitSched /\ [][SchedNext]_vars

(* ------------------------------- claims -------------------------------- *)
ValueOf(v) == store[v].value

\* C1: after a successful compile, arch_params and non_arch_params are
\* disjoint, neither repeats a variable, their union is exactly the set of
\* trainable variables, and their lengths add up to the number of trainable
\* variables.
C1_Partition ==
    compiled = "ok" =>
        LET tv == trainable_variables(layers, store)
        IN  /\ Range(arch_params) \cap Range(non_arch_params) = {}
            /\ Range(arch_params) \cup Range(non_arch_params) = Range(tv)
            /\ NoDuplicates(arch_params)
            /\ NoDuplicates(non_arch_params)
            /\ \A v \in Range(arch_params) \cup Range(non_arch_params) :
                  IsTrainable(layers, store, v)
            /\ Len(arch_params) + Len(non_arch_params) = Len(tv)

C1_Witness ==
    /\ compiled = "ok"
    /\ Len(arch_params) = 2
    /\ Len(non_arch_params) = 2

\* C2: in a train_step the gradient is computed once and before either
\* optimizer is applied, no optimizer is applied twice, and when the metrics
\* are updated and the step returns each optimizer has been applied exactly
\* once.
C2_StepOrder ==
    /\ step.grads <= 1 /\ step.non_arch <= 1 /\ step.arch <= 1 /\ step.metrics <= 1
    /\ (step.non_arch > 0 \/ step.arch > 0) => step.grads = 1
    /\ pc \in { "apply_non_arch", "apply_arch", "metrics" } => step.grads = 1
    /\ (pc = "metrics" \/ step.metrics > 0 \/ step.outcome = "returned") =>
          /\ step.grads = 1
          /\ step.non_arch = 1
          /\ step.arch = 1
    /\ step.outcome = "returned" => step.metrics = 1

C2_Witness ==
    /\ pc = "idle"
    /\ step.outcome = "returned"
    /\ \E a \in applied : a.opt = "optimizer"
    /\ \E a \in applied : a.opt = "arch_optimizer"

\* C3 as claimed: after a train_step has ended, normally or by a failure, the
\* non-architecture optimizer has been applied if and only if the
\* architecture optimizer has been applied.
C3_AllOrNothing ==
    (pc = "idle" /\ step.outcome # "none") =>
        (step.non_arch > 0 <=> step.arch > 0)

\* C3 amended: after a train_step has ended, the architecture optimizer has
\* been applied only if the non-architecture optimizer has; a step that
\* returned has applied both; a step that failed before the first application
\* has applied no gradient; a step that applied only the non-architecture
\* optimizer is one that failed in the architecture optimizer.
C3_NoArchOnly ==
    (pc = "idle" /\ step.outcome # "none") =>
        /\ step.arch > 0 => step.non_arch > 0
        /\ step.outcome = "returned" => (step.non_arch = 1 /\ step.arch = 1)
        /\ step.non_arch = 0 => applied = {}
        /\ (step.non_arch > 0 /\ step.arch = 0) =>
              /\ step.outcome = "raised"
              /\ \A a \in applied : a.opt = "optimizer"

C3_Witness ==
    /\ pc = "idle"
    /\ step.outcome = "raised"
    /\ step.non_arch = 1
    /\ step.arch = 0
    /\ \E a \in applied : a.opt = "optimizer" /\ ValueOf(a.var) # << 0 >>

\* The schedule as one fraction: start + (end - start) * max(E - s, 0) / (f - s),
\* raised to end_temp when it is below it.
ExpectedTemperature(c, epoch) ==
    LET m == IF epoch > c.start_epoch THEN epoch - c.start_epoch ELSE 0
        d == c.final_epoch - c.start_epoch
        st == c.start_temp
        et == c.end_temp
        linear == Rat(st[1] * et[2] * d + (et[1] * st[2] - st[1] * et[2]) * m,
                      st[2] * et[2] * d)
    IN  IF RatLess(linear, et) THEN et ELSE linear

TableSchedule ==
    /\ cb.start_epoch = 5 /\ cb.final_epoch = 15
    /\ cb.start_temp = RatInt(5) /\ cb.end_temp = Rat(1, 10)

\* C4: after on_epoch_begin(E) has set the temperature, every temperature
\* variable found at construction holds max(start + delta * max(E - s, 0), end);
\* for the schedule 5, 15, 5.0, 0.1 that is 5, 5, 2.55, 0.1, 0.1 at the epochs
\* 0, 5, 10, 15, 20.
C4_Broadcast ==
    (cb.constructed /\ sched[2].outcome = "set") =>
        LET E == sched[2].epoch
        IN  /\ \A v \in Range(cb.temperature_variables) :
                  ValueOf(v) = ExpectedTemperature(cb, E)
            /\ sched[2].temperature = ExpectedTemperature(cb, E)
            /\ TableSchedule =>
                  /\ E = 0 => sched[2].temperature = << 5, 1 >>
                  /\ E = 5 => sched[2].temperature = << 5, 1 >>
                  /\ E = 10 => sched[2].temperature = << 51, 20 >>
                  /\ E = 15 => sched[2].temperature = << 1, 10 >>
                  /\ E = 20 => sched[2].temperature = << 1, 10 >>

C4_Witness ==
    /\ cb.constructed
    /\ TableSchedule
    /\ Len(cb.temperature_variables) = 2
    /\ sched[2].outcome = "set"
    /\ sched[2].epoch = 10
    /\ ValueOf(Temperature(1)) = << 51, 20 >>
    /\ ValueOf(Temperature(2)) = << 51, 20 >>

\* What C5 says of one on_epoch_begin call made to the callback c.
Clamped(c, made) ==
    /\ made.outcome = "set"
    /\ made.epoch < c.start_epoch => made.temperature = c.start_temp
    /\ made.epoch > c.final_epoch => made.temperature = c.end_temp
    /\ RatLeq(c.end_temp, made.temperature)
    /\ RatLeq(made.temperature, c.start_temp)

\* C5 as claimed: for every constructed callback, every on_epoch_begin(E)
\* sets start_temp before start_epoch, end_temp past final_epoch, and a value
\* within [end_temp, start_temp] otherwise.
C5_ClampedAlways ==
    (cb.constructed /\ sched[2].outcome # "none") => Clamped(cb, sched[2])

\* C5 amended: the same for every constructed callback with
\* start_epoch < final_epoch.
C5_ClampedWhenOrdered ==
    (cb.constructed /\ cb.start_epoch < cb.final_epoch /\ sched[2].outcome # "none") =>
        Clamped(cb, sched[2])

C5_Witness ==
    /\ cb.constructed
    /\ cb.start_epoch < cb.final_epoch
    /\ sched[2].outcome = "set"
    /\ sched[2].epoch > cb.final_epoch
    /\ sched[2].temperature = cb.end_temp
    /\ sched[1].outcome = "set"
    /\ sched[1].epoch < cb.start_epoch
    /\ sched[1].temperature = cb.start_temp

\* Two calls that set a temperature, the later epoch's value not above the
\* earlier epoch's.
NonIncreasing(first, second) ==
    (first.outcome = "set" /\ second.outcome = "set" /\ first.epoch < second.epoch) =>
        RatLeq(second.temperature, first.temperature)

\* C6 as claimed: for every constructed callback and epochs E1 < E2, the
\* temperature set for E2 is at most the temperature set for E1.
C6_MonotoneAlways ==
    cb.constructed =>
        /\ NonIncreasing(sched[1], sched[2])
        /\ NonIncreasing(sched[2], sched[1])

\* C6 amended: the same for every constructed callback with
\* start_epoch < final_epoch.
C6_MonotoneWhenOrdered ==
    (cb.constructed /\ cb.start_epoch < cb.final_epoch) =>
        /\ NonIncreasing(sched[1], sched[2])
        /\ NonIncreasing(sched[2], sched[1])

C6_Witness ==
    /\ cb.constructed
    /\ cb.start_epoch < cb.final_epoch
    /\ sched[1].outcome = "set"
    /\ sched[2].outcome = "set"
    /\ sched[1].epoch < sched[2].epoch
    /\ RatLess(sched[2].temperature, sched[1].temperature)

\* The operation the constructor's argument gives to a name.
Supplied(inp, name) ==
    IF inp.kind = "list"
    THEN inp.items[CHOOSE i \in DOMAIN inp.items : str(i - 1) = name]
    ELSE DictGet(inp.items, name)

\* C7: MixedModuleTf(ops) fails exactly when fewer than 2 operations are
\* supplied (a list's positions and a dict's keys are unique names); every
\* layer it leaves behind has at least 2 operations, no repeated name, one
\* attribute per name, and each name gives back the operation supplied for it.
C7_Construction ==
    /\ lastCtor.inp.kind # "none" => (lastCtor.ok <=> Len(lastCtor.inp.items) >= 2)
    /\ \A l \in DOMAIN layers :
          /\ Len(layers[l].op_names) >= 2
          /\ NoDuplicates(layers[l].op_names)
          /\ Cardinality(DOMAIN layers[l].attrs) = Len(layers[l].op_names)
    /\ lastCtor.ok =>
          LET layer == layers[Len(layers)]
          IN  /\ Len(layer.op_names) = Len(lastCtor.inp.items)
              /\ \A i \in DOMAIN layer.op_names :
                    get_module(layer, layer.op_names[i])
                        = Supplied(lastCtor.inp, layer.op_names[i])
              /\ lastCtor.inp.kind = "dict" =>
                    layer.op_names = DictKeys(lastCtor.inp.items)

C7_Witness ==
    /\ lastCtor.ok
    /\ lastCtor.inp.kind = "dict"
    /\ Len(layers) = 1
    /\ layers[1].op_names = << "b", "0", "a" >>
    /\ get_module(layers[1], "0") = "skip"
    /\ get_module(layers[1], "b") = "conv3"

\* C8: once a layer is built, no step changes its cost vector, and only
\* on_epoch_begin changes its temperature.
C8_Frame ==
    [][ \A l \in DOMAIN layers :
          layers[l].built =>
              /\ store'[OpsCost(l)].value = store[OpsCost(l)].value
              /\ store'[OpsCost(l)].value =
                    [ i \in DOMAIN layers[l].op_names |->
                        get_flops_inputs(get_module(layers[l], layers[l].op_names[i])) ]
              /\ store'[Temperature(l)].value # store[Temperature(l)].value =>
                    /\ pc = "idle" /\ pc' = "idle"
                    /\ sched' # sched
                    /\ sched'[2].outcome = "set"
                    /\ store'[Temperature(l)].value = sched'[2].temperature ]_vars

C8_Witness ==
    /\ steps >= 2
    /\ pc = "idle"
    /\ step.outcome = "returned"
    /\ sched[2].outcome = "set"
    /\ Len(layers) >= 1
    /\ ValueOf(OpsCost(1)) = << 3, 5 >>
    /\ ValueOf(ArchParams(1)) # << 1, 1 >>
    /\ ValueOf(Temperature(1)) # << 1, 1 >>

\* The layers the running forward pass has called so far, in order.
RECURSIVE CalledBefore(_, _)
CalledBefore(ls, l) ==
    IF l = 0 THEN << >>
    ELSE CalledBefore(ls, l - 1) \o (IF ls[l].connected THEN << l >> ELSE << >>)

\* C9: every forward call of a layer registers exactly one loss, and the loss
\* registered by a layer whose multiplier is 0 is exactly 0.
C9_CostLoss ==
    /\ pc = "forward" =>
          [ i \in DOMAIN losses |-> losses[i].layer ]
              = CalledBefore(layers, Min(fwdIdx - 1, Len(layers)))
    /\ \A i \in DOMAIN losses :
          layers[losses[i].layer].cost_loss_multiplier = 0 => losses[i].value = << 0, 1 >>

C9_Witness ==
    /\ Len(losses) = 2
    /\ layers[losses[1].layer].cost_loss_multiplier = 0
    /\ ValueOf(OpsCost(losses[1].layer)) = << 0, 5, 3 >>
    /\ losses[1].value = << 0, 1 >>
    /\ layers[losses[2].layer].cost_loss_multiplier = 2
    /\ losses[2].value # << 0, 1 >>

\* C10: the first len(non_arch_params) gradients pair positionally with the
\* non-architecture parameters and the rest with the architecture parameters;
\* the non-architecture optimizer updates only non-architecture parameters,
\* the architecture optimizer only preference vectors, each with the gradient
\* computed for that very parameter.
C10_Routing ==
    /\ pc \in { "apply_non_arch", "apply_arch", "metrics" } =>
          /\ Len(non_arch_gradients) = Len(non_arch_params)
          /\ Len(arch_gradients) = Len(arch_params)
          /\ \A i \in DOMAIN non_arch_params :
                non_arch_gradients[i].wrt = non_arch_params[i]
          /\ \A j \in DOMAIN arch_params :
                arch_gradients[j].wrt = arch_params[j]
    /\ \A a \in applied :
          /\ a.grad.wrt = a.var
          /\ a.opt = "optimizer" =>
                /\ a.var \in Range(non_arch_params)
                /\ a.var[2] # "gumble_arch_params"
          /\ a.opt = "arch_optimizer" =>
                /\ a.var \in Range(arch_params)
                /\ a.var[2] = "gumble_arch_params"

C10_Witness ==
    /\ pc = "metrics"
    /\ \E a \in applied : a.opt = "optimizer" /\ a.var = Bias
    /\ \E a \in applied : a.opt = "arch_optimizer" /\ a.var = ArchParams(2)
====
